---- MODULE Spec2Model ----
(***************************************************************************)
(* Model of the multi-AI Telegram bot of src/main.py: the sliding-window   *)
(* rate limiter, the usage recorder, the upstream response handling and    *)
(* the ask_ai handler as it runs on the asyncio event loop (handlers are   *)
(* coroutines run as concurrent tasks; a task gives up the loop only at an *)
(* await; requests.post is a synchronous call that holds the loop).        *)
(***************************************************************************)
EXTENDS Integers, Sequences, FiniteSets, TLC

------------------------------------------------------------------------------
(* Bounds of the model *)

\* number of ask_ai dispatches started in one behaviour of Spec
MaxDispatch == 2
\* number of ask_ai dispatches started in one behaviour of SpecBurst
MaxBurst == 6
\* number of ask_ai dispatches started in one behaviour of SpecQuota
MaxCalls == 32
\* seconds the clock may advance past the start time
MaxTime == 61
\* most fields in an upstream JSON object
MaxFields == 3
\* number of handler runs started in one behaviour of SpecStats
MaxOps == 3

\* handler tasks that may be in flight at once (concurrent_updates(True))
Tasks == {1, 2}
\* amounts by which time.time() is seen to advance between two steps
ClockSteps == {30, 61}
\* the steps that take the clock past a window, a timeout and midnight
LongSteps == {d \in ClockSteps : d > 60}
\* the wall clock when the process starts (one minute before midnight)
StartTimes == {86340}

------------------------------------------------------------------------------
(* Program constants *)

DEFAULT_REQUESTS_PER_MINUTE == 5
REQUEST_WINDOW == 60
ADMIN_REQUESTS_PER_MINUTE == 30
PREMIUM_REQUESTS_PER_MINUTE == 15
ASK_TIMEOUT == 60
STATUS_TIMEOUT == 10
LONG_STRING == 20
DEFAULT_MODEL == "openai/gpt-4"

\* user ids: 1 is registered as admin, 2 as premium, 3 is not in user_roles
Users == {1, 2, 3}
user_roles == (1 :> "admin") @@ (2 :> "premium")

AI_MODELS ==
    [claude   |-> [id |-> "anthropic/claude-sonnet-4", name |-> "Claude Sonnet 4"],
     opus     |-> [id |-> "anthropic/claude-opus-4", name |-> "Claude Opus 4"],
     gpt4     |-> [id |-> "openai/gpt-4", name |-> "GPT-4"],
     gpt45    |-> [id |-> "openai/gpt-4.5-preview", name |-> "GPT-4.5 (Preview)"],
     o1pro    |-> [id |-> "openai/o1-pro", name |-> "OpenAI o1-pro"],
     gemini   |-> [id |-> "google/gemini-pro", name |-> "Gemini Pro"],
     gemini25 |-> [id |-> "google/gemini-2.5-pro-preview-03-25",
                   name |-> "Gemini 2.5 Pro (Preview)"]]

\* the handler an update is routed to: a model command or a plain message
Commands == {"claude", "direct_message"}

ModelId(cmd) == IF cmd = "direct_message" THEN DEFAULT_MODEL ELSE AI_MODELS[cmd].id
ModelName(cmd) ==
    IF cmd = "direct_message" THEN "GPT-4 (Default)" ELSE AI_MODELS[cmd].name

------------------------------------------------------------------------------
(* State *)

VARIABLES
    now,                 \* what time.time() returns
    loop,                \* the task holding the event loop inside requests.post, or 0
    task,                \* per handler task: position in ask_ai and its locals
    dispatched,          \* number of ask_ai dispatches started so far
    user_request_times,  \* user id -> list of admitted request times
    total_requests,
    model_usage_counts,
    user_usage_counts,
    user_first_seen,
    daily_usage,
    hourly_usage,
    admit_log,           \* history: per user, the admitted calls of the last minute
    calls,               \* history: per user, the facts about the latest admit calls
    record_calls,        \* history: per user, the number of record_usage calls
    admitted_calls       \* history: per user, the number of admit calls that admitted

limiter == <<user_request_times>>
stats == <<total_requests, model_usage_counts, user_usage_counts, user_first_seen,
           daily_usage, hourly_usage>>
history == <<admit_log, calls, record_calls, admitted_calls>>
vars == <<now, loop, task, dispatched, limiter, stats, history>>

------------------------------------------------------------------------------
(* Dictionaries: defaultdict and dict as functions with a growing domain *)

Get(d, k, default) == IF k \in DOMAIN d THEN d[k] ELSE default
Put(d, k, v) == [x \in DOMAIN d \cup {k} |-> IF x = k THEN v ELSE d[x]]
\* variant: the counter is assigned, not incremented
Incr_overwrite(d, k) == Put(d, k, 1)

Incr(d, k) == Put(d, k, Get(d, k, 0) + 1)

RECURSIVE SumOver(_, _)
SumOver(d, keys) ==
    IF keys = {} THEN 0
    ELSE LET k == CHOOSE x \in keys : TRUE IN d[k] + SumOver(d, keys \ {k})
Sum(d) == SumOver(d, DOMAIN d)

------------------------------------------------------------------------------
(* Roles and quotas *)

get_user_role(user_id) == Get(user_roles, user_id, "standard")

get_user_rate_limit(user_id) ==
    LET role == get_user_role(user_id) IN
    IF role = "admin" THEN ADMIN_REQUESTS_PER_MINUTE
    ELSE IF role = "premium" THEN PREMIUM_REQUESTS_PER_MINUTE
    ELSE DEFAULT_REQUESTS_PER_MINUTE

------------------------------------------------------------------------------
(* Rate limiter *)

\* variant: a time exactly a window old is kept
InWindow_inclusive(current_time, t) == current_time - t <= REQUEST_WINDOW

\* the filter of the list comprehension: t is kept at current_time
InWindow(current_time, t) == current_time - t < REQUEST_WINDOW

\* variant: the list is never pruned
PruneWindow_keep_all(times, current_time) == times

PruneWindow(times, current_time) ==
    SelectSeq(times, LAMBDA t : InWindow(current_time, t))

\* variant: the comparison is strict
OverLimit_strict(count, user_limit) == count > user_limit

OverLimit(count, user_limit) == count >= user_limit

\* variant: the time of a rejected call is stored as well
is_rate_limited_append_always(times, user_id, current_time) ==
    LET pruned == PruneWindow(Get(times, user_id, <<>>), current_time) IN
    [limited |-> OverLimit(Len(pruned), get_user_rate_limit(user_id)),
     times |-> Put(times, user_id, Append(pruned, current_time))]

\* variant: the count is checked and the time appended on either side of an
\* await, so a call does not count the requests of the same user whose handler
\* is still at its first await
is_rate_limited_stale(times, user_id, current_time) ==
    LET pruned == PruneWindow(Get(times, user_id, <<>>), current_time)
        racing == Cardinality({t \in Tasks : task[t].pc = "typing" /\ task[t].user = user_id})
    IN
    IF OverLimit(Len(pruned) - racing, get_user_rate_limit(user_id))
    THEN [limited |-> TRUE, times |-> Put(times, user_id, pruned)]
    ELSE [limited |-> FALSE,
          times |-> Put(times, user_id, Append(pruned, current_time))]

\* is_rate_limited(user_id) called at current_time on the dictionary `times`:
\* the value returned and the dictionary it leaves
is_rate_limited(times, user_id, current_time) ==
    LET pruned == PruneWindow(Get(times, user_id, <<>>), current_time) IN
    IF OverLimit(Len(pruned), get_user_rate_limit(user_id))
    THEN [limited |-> TRUE, times |-> Put(times, user_id, pruned)]
    ELSE [limited |-> FALSE,
          times |-> Put(times, user_id, Append(pruned, current_time))]

------------------------------------------------------------------------------
(* Usage recorder *)

strftime_date(t) == t \div 86400
strftime_hour(t) == t \div 3600

\* variant: the per-model counter is left out
record_usage_skip_model(st, user_id, model_id, current_time) ==
    [total_requests     |-> st.total_requests + 1,
     model_usage_counts |-> st.model_usage_counts,
     user_usage_counts  |-> Incr(st.user_usage_counts, user_id),
     user_first_seen    |-> IF user_id \in DOMAIN st.user_first_seen
                            THEN st.user_first_seen
                            ELSE Put(st.user_first_seen, user_id, current_time),
     daily_usage        |-> Incr(st.daily_usage, strftime_date(current_time)),
     hourly_usage       |-> Incr(st.hourly_usage, strftime_hour(current_time))]

\* record_usage(user_id, model_id) at current_time on the statistics `st`
record_usage(st, user_id, model_id, current_time) ==
    [total_requests     |-> st.total_requests + 1,
     model_usage_counts |-> Incr(st.model_usage_counts, model_id),
     user_usage_counts  |-> Incr(st.user_usage_counts, user_id),
     user_first_seen    |-> IF user_id \in DOMAIN st.user_first_seen
                            THEN st.user_first_seen
                            ELSE Put(st.user_first_seen, user_id, current_time),
     daily_usage        |-> Incr(st.daily_usage, strftime_date(current_time)),
     hourly_usage       |-> Incr(st.hourly_usage, strftime_hour(current_time))]

------------------------------------------------------------------------------
(* Message text and str.split() *)

\* a text is a sequence of characters; "/" stands for the command word
Chars == {" ", "a"}
\* message bodies: empty, whitespace only, a word, whitespace and a word
Texts == {<<>>, <<" ">>, <<"a">>, <<" ", "a">>}

RECURSIVE SplitAcc(_, _, _)
SplitAcc(text, word, words) ==
    LET flushed == IF Len(word) = 0 THEN words ELSE Append(words, word) IN
    IF Len(text) = 0 THEN flushed
    ELSE IF Head(text) = " " THEN SplitAcc(Tail(text), <<>>, flushed)
    ELSE SplitAcc(Tail(text), Append(word, Head(text)), words)

\* text.split(): the maximal runs of non-whitespace characters
Split(text) == SplitAcc(text, <<>>, <<>>)

\* the updates a handler is run for: CommandHandler takes "/cmd" followed by
\* nothing or by whitespace and more; the MessageHandler (filters.TEXT &
\* ~filters.COMMAND) takes any non-empty text
Routed(cmd, body) ==
    IF cmd = "direct_message" THEN Len(body) > 0
    ELSE IF Len(body) = 0 THEN TRUE ELSE body[1] = " "

\* context.args as the handler sees it
ContextArgs(cmd, body) ==
    IF cmd = "direct_message" THEN Split(body)
    ELSE Tail(Split(<<"/">> \o body))

------------------------------------------------------------------------------
(* Upstream responses *)

Str(s)   == [type |-> "str", s |-> s]
JTrue    == [type |-> "bool", s |-> "True"]
JFalse   == [type |-> "bool", s |-> "False"]
JNone    == [type |-> "null", s |-> "None"]

Short    == "Paris"
Exactly20 == "aaaaaaaaaaaaaaaaaaaa"
Over20   == "Paris is the capital."

JsonKeys == {"success", "error", "response", "output", "foo"}
JsonValues == {Str(Short), Str(Exactly20), Str(Over20), JTrue, JFalse, JNone}

\* JSON objects as the ordered list of their fields, keys distinct
KeyLists(n) == {ks \in [1..n -> JsonKeys] : \A i, j \in 1..n : i # j => ks[i] # ks[j]}
ValueLists(n) == [1..n -> JsonValues]
JsonObject(ks, vs) == [i \in 1..Len(ks) |-> [key |-> ks[i], val |-> vs[i]]]

HasKey(data, k) == \E i \in 1..Len(data) : data[i].key = k
Field(data, k) == (CHOOSE f \in {data[i] : i \in 1..Len(data)} : f.key = k).val

Reply(kind, model_name, text, raw) ==
    [kind |-> kind, model |-> model_name, text |-> text, raw |-> raw]

\* header + value: str + str, a TypeError for any other value (the handler's
\* except Exception then sends the generic message)
HeaderPlus(model_name, value) ==
    IF value.type = "str" THEN Reply("text", model_name, value.s, <<>>)
    ELSE Reply("unexpected_error", model_name, "", <<>>)

\* the first item of response_data.items() that is a str longer than 20
RECURSIVE FirstLong(_)
FirstLong(data) ==
    IF Len(data) = 0 THEN <<>>
    ELSE IF Head(data).val.type = "str" /\ Len(Head(data).val.s) > LONG_STRING
         THEN <<Head(data).val>>
         ELSE FirstLong(Tail(data))

\* variant: the loop over the items sends the text and does not return
HandleResponse_no_return(model_name, data) ==
    IF HasKey(data, "success") /\ Field(data, "success") = JFalse /\ HasKey(data, "error")
    THEN <<HeaderPlus(model_name, Field(data, "error"))>>
    ELSE IF HasKey(data, "response")
    THEN <<HeaderPlus(model_name, Field(data, "response"))>>
    ELSE IF HasKey(data, "output")
    THEN <<HeaderPlus(model_name, Field(data, "output"))>>
    ELSE IF HasKey(data, "error") /\ HasKey(data, "success")
            /\ Field(data, "success") = JTrue
    THEN <<Reply("error_from", model_name, Field(data, "error").s, <<>>)>>
    ELSE IF Len(FirstLong(data)) > 0
    THEN <<Reply("text", model_name, FirstLong(data)[1].s, <<>>),
           Reply("unexpected_format", model_name, "", data)>>
    ELSE <<Reply("unexpected_format", model_name, "", data)>>

\* variant: the response field is looked at before the success flag
HandleResponse_response_first(model_name, data) ==
    IF HasKey(data, "response")
    THEN <<HeaderPlus(model_name, Field(data, "response"))>>
    ELSE IF HasKey(data, "success") /\ Field(data, "success") = JFalse /\ HasKey(data, "error")
    THEN <<HeaderPlus(model_name, Field(data, "error"))>>
    ELSE IF HasKey(data, "output")
    THEN <<HeaderPlus(model_name, Field(data, "output"))>>
    ELSE IF HasKey(data, "error") /\ HasKey(data, "success")
            /\ Field(data, "success") = JTrue
    THEN <<Reply("error_from", model_name, Field(data, "error").s, <<>>)>>
    ELSE IF Len(FirstLong(data)) > 0
    THEN <<Reply("text", model_name, FirstLong(data)[1].s, <<>>)>>
    ELSE <<Reply("unexpected_format", model_name, "", data)>>

\* the replies the if/elif chain sends for a decoded JSON object
HandleResponse(model_name, data) ==
    IF HasKey(data, "success") /\ Field(data, "success") = JFalse /\ HasKey(data, "error")
    THEN <<HeaderPlus(model_name, Field(data, "error"))>>
    ELSE IF HasKey(data, "response")
    THEN <<HeaderPlus(model_name, Field(data, "response"))>>
    ELSE IF HasKey(data, "output")
    THEN <<HeaderPlus(model_name, Field(data, "output"))>>
    ELSE IF HasKey(data, "error") /\ HasKey(data, "success")
            /\ Field(data, "success") = JTrue
    THEN <<Reply("error_from", model_name, Field(data, "error").s, <<>>)>>
    ELSE IF Len(FirstLong(data)) > 0
    THEN <<Reply("text", model_name, FirstLong(data)[1].s, <<>>)>>
    ELSE <<Reply("unexpected_format", model_name, "", data)>>

\* what requests.post / raise_for_status / response.json() can end in
Outcome(kind, data) == [kind |-> kind, data |-> data]
FailureKinds == {"timeout", "connection_error", "http_error", "bad_json", "not_object"}

\* the replies of the try block and its except clauses for one outcome
HandleOutcome(model_name, outcome) ==
    IF outcome.kind = "json" THEN HandleResponse(model_name, outcome.data)
    ELSE IF outcome.kind = "timeout" THEN <<Reply("timeout", model_name, "", <<>>)>>
    ELSE IF outcome.kind \in {"connection_error", "http_error", "bad_json"}
    THEN <<Reply("api_error", model_name, outcome.kind, <<>>)>>
    ELSE <<Reply("unexpected_error", model_name, "", <<>>)>>

------------------------------------------------------------------------------
(* The statistics as one value, the initial state *)

Stats ==
    [total_requests |-> total_requests, model_usage_counts |-> model_usage_counts,
     user_usage_counts |-> user_usage_counts, user_first_seen |-> user_first_seen,
     daily_usage |-> daily_usage, hourly_usage |-> hourly_usage]

SetStats(st) ==
    /\ total_requests' = st.total_requests
    /\ model_usage_counts' = st.model_usage_counts
    /\ user_usage_counts' = st.user_usage_counts
    /\ user_first_seen' = st.user_first_seen
    /\ daily_usage' = st.daily_usage
    /\ hourly_usage' = st.hourly_usage

\* a task slot no handler runs in
Idle ==
    [pc |-> "idle", user |-> 0, cmd |-> "", args |-> <<>>, since |-> 0,
     outcome |-> Outcome("", <<>>), trace |-> <<>>, replies |-> <<>>,
     admitted |-> FALSE, run |-> 0]

NoCalls ==
    [last |-> -1, lastAdmit |-> -1, runStart |-> -1, runCalls |-> 0,
     ok |-> FALSE, prevOk |-> FALSE, gapOver |-> FALSE]

\* the history of a user's admit calls after a call at time t that returned ok
NoteCall(c, t, ok, cap) ==
    LET empty == c.lastAdmit = -1 \/ t - c.lastAdmit >= 60
        inRun == c.runCalls > 0 /\ t - c.runStart < 60
    IN  [last      |-> t,
         lastAdmit |-> IF ok THEN t ELSE c.lastAdmit,
         runStart  |-> IF empty THEN t ELSE c.runStart,
         runCalls  |-> IF empty THEN 1
                       ELSE IF inRun /\ c.runCalls < cap THEN c.runCalls + 1
                       ELSE IF inRun THEN cap ELSE 0,
         ok        |-> ok,
         prevOk    |-> c.ok,
         gapOver   |-> c.last # -1 /\ t - c.last > 60]

Init ==
    /\ now \in StartTimes
    /\ loop = 0
    /\ task = [t \in Tasks |-> Idle]
    /\ dispatched = 0
    /\ user_request_times = <<>>
    /\ total_requests = 0
    /\ model_usage_counts = <<>>
    /\ user_usage_counts = <<>>
    /\ user_first_seen = <<>>
    /\ daily_usage = <<>>
    /\ hourly_usage = <<>>
    /\ admit_log = [u \in Users |-> <<>>]
    /\ calls = [u \in Users |-> NoCalls]
    /\ record_calls = [u \in Users |-> 0]
    /\ admitted_calls = [u \in Users |-> 0]

------------------------------------------------------------------------------
(* ask_ai, one action per stretch of the coroutine between two awaits *)

RateLimitReply(user_id) ==
    [kind |-> "rate_limit", model |-> get_user_role(user_id),
     text |-> "", raw |-> <<get_user_rate_limit(user_id)>>]

\* variant: the args are looked at before the rate limit is checked
AskAiAdmit_args_first(t, user_id, cmd, body) ==
    LET r == is_rate_limited(user_request_times, user_id, now)
        c == NoteCall(calls[user_id], now, ~r.limited, get_user_rate_limit(user_id) + 2)
        empty == Len(ContextArgs(cmd, body)) = 0
    IN
    /\ loop = 0
    /\ task[t].pc = "idle"
    /\ Routed(cmd, body)
    /\ dispatched' = dispatched + 1
    /\ user_request_times' = IF empty THEN user_request_times ELSE r.times
    /\ task' = [task EXCEPT ![t] =
          IF empty
          THEN [Idle EXCEPT !.pc = "replying", !.user = user_id, !.cmd = cmd,
                            !.trace = <<"reply_text">>,
                            !.replies = <<Reply("usage", cmd, "", <<>>)>>]
          ELSE IF r.limited
          THEN [Idle EXCEPT !.pc = "replying", !.user = user_id, !.cmd = cmd,
                            !.args = ContextArgs(cmd, body), !.run = c.runCalls,
                            !.trace = <<"is_rate_limited", "reply_text">>,
                            !.replies = <<RateLimitReply(user_id)>>]
          ELSE [Idle EXCEPT !.pc = "typing", !.user = user_id, !.cmd = cmd,
                            !.args = ContextArgs(cmd, body), !.run = c.runCalls,
                            !.admitted = TRUE,
                            !.trace = <<"is_rate_limited", "send_action">>]]
    /\ calls' = IF empty THEN calls ELSE [calls EXCEPT ![user_id] = c]
    /\ admitted_calls' = [admitted_calls EXCEPT ![user_id] =
          IF empty \/ r.limited THEN @ ELSE @ + 1]
    /\ admit_log' = [admit_log EXCEPT ![user_id] =
          IF empty \/ r.limited THEN @
          ELSE Append(SelectSeq(@, LAMBDA s : now - s < 60), now)]
    /\ UNCHANGED <<now, loop, stats, record_calls>>

\* variant: the usage is recorded before the rate limit is checked
AskAiAdmit_record_first(t, user_id, cmd, body) ==
    LET r == is_rate_limited(user_request_times, user_id, now)
        c == NoteCall(calls[user_id], now, ~r.limited, get_user_rate_limit(user_id) + 2)
    IN
    /\ loop = 0
    /\ task[t].pc = "idle"
    /\ Routed(cmd, body)
    /\ dispatched' = dispatched + 1
    /\ user_request_times' = r.times
    /\ SetStats(record_usage(Stats, user_id, ModelId(cmd), now))
    /\ record_calls' = [record_calls EXCEPT ![user_id] = @ + 1]
    /\ task' = [task EXCEPT ![t] =
          IF r.limited
          THEN [Idle EXCEPT !.pc = "replying", !.user = user_id, !.cmd = cmd,
                            !.args = ContextArgs(cmd, body), !.run = c.runCalls,
                            !.trace = <<"record_usage", "is_rate_limited", "reply_text">>,
                            !.replies = <<RateLimitReply(user_id)>>]
          ELSE [Idle EXCEPT !.pc = "typing", !.user = user_id, !.cmd = cmd,
                            !.args = ContextArgs(cmd, body), !.run = c.runCalls,
                            !.admitted = TRUE,
                            !.trace = <<"record_usage", "is_rate_limited", "send_action">>]]
    /\ calls' = [calls EXCEPT ![user_id] = c]
    /\ admitted_calls' = [admitted_calls EXCEPT ![user_id] = IF r.limited THEN @ ELSE @ + 1]
    /\ admit_log' = [admit_log EXCEPT ![user_id] =
          IF r.limited THEN @
          ELSE Append(SelectSeq(@, LAMBDA s : now - s < 60), now)]
    /\ UNCHANGED <<now, loop>>

\* Lines 241-254: from the start of the handler to its first await. The rate
\* limit check runs without an await in it; a limited user gets the rate-limit
\* reply and the handler returns, any other gets the typing indicator.
AskAiAdmit(t, user_id, cmd, body) ==
    LET r == is_rate_limited(user_request_times, user_id, now)
        c == NoteCall(calls[user_id], now, ~r.limited, get_user_rate_limit(user_id) + 2)
    IN
    /\ loop = 0
    /\ task[t].pc = "idle"
    /\ Routed(cmd, body)
    /\ dispatched' = dispatched + 1
    /\ user_request_times' = r.times
    /\ task' = [task EXCEPT ![t] =
          IF r.limited
          THEN [Idle EXCEPT !.pc = "replying", !.user = user_id, !.cmd = cmd,
                            !.args = ContextArgs(cmd, body), !.run = c.runCalls,
                            !.trace = <<"is_rate_limited", "reply_text">>,
                            !.replies = <<RateLimitReply(user_id)>>]
          ELSE [Idle EXCEPT !.pc = "typing", !.user = user_id, !.cmd = cmd,
                            !.args = ContextArgs(cmd, body), !.run = c.runCalls,
                            !.admitted = TRUE,
                            !.trace = <<"is_rate_limited", "send_action">>]]
    /\ calls' = [calls EXCEPT ![user_id] = c]
    /\ admitted_calls' = [admitted_calls EXCEPT ![user_id] = IF r.limited THEN @ ELSE @ + 1]
    /\ admit_log' = [admit_log EXCEPT ![user_id] =
          IF r.limited THEN @
          ELSE Append(SelectSeq(@, LAMBDA s : now - s < 60), now)]
    /\ UNCHANGED <<now, loop, stats, record_calls>>

\* variant: the usage is recorded before the args are looked at
AskAiResume_record_first(t) ==
    /\ loop = 0
    /\ task[t].pc = "typing"
    /\ SetStats(record_usage(Stats, task[t].user, ModelId(task[t].cmd), now))
    /\ record_calls' = [record_calls EXCEPT ![task[t].user] = @ + 1]
    /\ IF Len(task[t].args) = 0
       THEN /\ task' = [task EXCEPT ![t].pc = "replying",
                           ![t].trace = @ \o <<"record_usage", "reply_text">>,
                           ![t].replies = <<Reply("usage", task[t].cmd, "", <<>>)>>]
            /\ UNCHANGED loop
       ELSE /\ task' = [task EXCEPT ![t].pc = "upstream", ![t].since = now,
                           ![t].trace = @ \o <<"record_usage", "requests.post">>]
            /\ loop' = t
    /\ UNCHANGED <<now, dispatched, limiter, admit_log, calls, admitted_calls>>

\* variant: the usage is not recorded before the upstream call
AskAiResume_record_later(t) ==
    /\ loop = 0
    /\ task[t].pc = "typing"
    /\ IF Len(task[t].args) = 0
       THEN /\ task' = [task EXCEPT ![t].pc = "replying",
                           ![t].trace = Append(@, "reply_text"),
                           ![t].replies = <<Reply("usage", task[t].cmd, "", <<>>)>>]
            /\ UNCHANGED loop
       ELSE /\ task' = [task EXCEPT ![t].pc = "upstream", ![t].since = now,
                           ![t].trace = Append(@, "requests.post")]
            /\ loop' = t
    /\ UNCHANGED <<now, dispatched, limiter, stats, history>>

\* Lines 256-284: the task resumes after the typing indicator. Without args it
\* replies with the usage hint and returns; otherwise it records the usage and
\* enters requests.post, which holds the event loop until it returns.
AskAiResume(t) ==
    /\ loop = 0
    /\ task[t].pc = "typing"
    /\ IF Len(task[t].args) = 0
       THEN /\ task' = [task EXCEPT ![t].pc = "replying",
                           ![t].trace = Append(@, "reply_text"),
                           ![t].replies = <<Reply("usage", task[t].cmd, "", <<>>)>>]
            /\ UNCHANGED <<loop, stats, record_calls>>
       ELSE /\ SetStats(record_usage(Stats, task[t].user, ModelId(task[t].cmd), now))
            /\ record_calls' = [record_calls EXCEPT ![task[t].user] = @ + 1]
            /\ task' = [task EXCEPT ![t].pc = "upstream", ![t].since = now,
                           ![t].trace = @ \o <<"record_usage", "requests.post">>]
            /\ loop' = t
    /\ UNCHANGED <<now, dispatched, limiter, admit_log, calls, admitted_calls>>

\* variant: a failed upstream call is made a second time
UpstreamReturn_retry(t, outcome) ==
    /\ loop = t
    /\ task[t].pc = "upstream"
    /\ outcome.kind = "timeout" => now - task[t].since >= ASK_TIMEOUT
    /\ IF outcome.kind \in {"timeout", "connection_error", "http_error"}
          /\ Len(SelectSeq(task[t].trace, LAMBDA c : c = "requests.post")) < 2
       THEN /\ task' = [task EXCEPT ![t].since = now,
                           ![t].trace = Append(@, "requests.post")]
            /\ UNCHANGED loop
       ELSE /\ LET sent == HandleOutcome(ModelName(task[t].cmd), outcome) IN
               task' = [task EXCEPT ![t].pc = "replying", ![t].outcome = outcome,
                           ![t].since = 0,
                           ![t].trace = @ \o [i \in 1..Len(sent) |-> "reply_text"],
                           ![t].replies = sent]
            /\ loop' = 0
    /\ UNCHANGED <<now, dispatched, limiter, stats, history>>

\* Lines 284-327: requests.post returns or raises, the response is handled and
\* the reply is sent; the task gives the loop back at the await of the reply.
\* A timeout needs ASK_TIMEOUT seconds to have passed.
UpstreamReturn(t, outcome) ==
    /\ loop = t
    /\ task[t].pc = "upstream"
    /\ outcome.kind = "timeout" => now - task[t].since >= ASK_TIMEOUT
    /\ LET sent == HandleOutcome(ModelName(task[t].cmd), outcome) IN
       task' = [task EXCEPT ![t].pc = "replying", ![t].outcome = outcome,
                   ![t].since = 0,
                   ![t].trace = @ \o [i \in 1..Len(sent) |-> "reply_text"],
                   ![t].replies = sent]
    /\ loop' = 0
    /\ UNCHANGED <<now, dispatched, limiter, stats, history>>

\* The reply has been sent and the handler returns: the task is over.
AskAiReturn(t) ==
    /\ loop = 0
    /\ task[t].pc = "replying"
    /\ task' = [task EXCEPT ![t] = Idle]
    /\ UNCHANGED <<now, loop, dispatched, limiter, stats, history>>

------------------------------------------------------------------------------
(* status, one action per stretch of the coroutine between two awaits *)

\* what requests.post can end in for the probe: a response with status 200,
\* a response with another status, or an exception
StatusOutcomes == {"ok", "status_code", "timeout", "connection_error"}

StatusReply(outcome, response_time) ==
    [kind |-> IF outcome = "ok" THEN "status_ok"
              ELSE IF outcome = "status_code" THEN "status_code"
              ELSE "status_failed",
     model |-> "GPT-4", text |-> outcome, raw |-> <<response_time>>]

\* variant: the probe goes through the rate limit check and the usage
\* recorder as a question does
StatusStart_rate_limited(t, user_id) ==
    LET r == is_rate_limited(user_request_times, user_id, now) IN
    /\ loop = 0
    /\ task[t].pc = "idle"
    /\ dispatched' = dispatched + 1
    /\ user_request_times' = r.times
    /\ IF r.limited
       THEN /\ task' = [task EXCEPT ![t] =
                   [Idle EXCEPT !.pc = "status_replying", !.user = user_id,
                                !.cmd = "status",
                                !.trace = <<"is_rate_limited", "reply_text">>,
                                !.replies = <<RateLimitReply(user_id)>>]]
            /\ UNCHANGED stats
       ELSE /\ task' = [task EXCEPT ![t] =
                   [Idle EXCEPT !.pc = "status_typing", !.user = user_id,
                                !.cmd = "status",
                                !.trace = <<"is_rate_limited", "record_usage",
                                            "send_action">>]]
            /\ SetStats(record_usage(Stats, user_id, DEFAULT_MODEL, now))
    /\ UNCHANGED <<now, loop, history>>

\* Lines 366-368: the handler starts and waits at the typing indicator.
StatusStart(t, user_id) ==
    /\ loop = 0
    /\ task[t].pc = "idle"
    /\ dispatched' = dispatched + 1
    /\ task' = [task EXCEPT ![t] =
          [Idle EXCEPT !.pc = "status_typing", !.user = user_id, !.cmd = "status",
                       !.trace = <<"send_action">>]]
    /\ UNCHANGED <<now, loop, limiter, stats, history>>

\* Lines 370-378: the task resumes, takes the start time and enters
\* requests.post, which holds the event loop until it returns.
StatusResume(t) ==
    /\ loop = 0
    /\ task[t].pc = "status_typing"
    /\ task' = [task EXCEPT ![t].pc = "status_upstream", ![t].since = now,
                   ![t].trace = Append(@, "requests.post")]
    /\ loop' = t
    /\ UNCHANGED <<now, dispatched, limiter, stats, history>>

\* Lines 378-393: requests.post returns or raises and the report is sent.
\* A timeout needs STATUS_TIMEOUT seconds to have passed.
StatusReturn(t, outcome) ==
    /\ loop = t
    /\ task[t].pc = "status_upstream"
    /\ outcome = "timeout" => now - task[t].since >= STATUS_TIMEOUT
    /\ task' = [task EXCEPT ![t].pc = "status_replying", ![t].since = 0,
                   ![t].trace = Append(@, "reply_text"),
                   ![t].replies = <<StatusReply(outcome, now - task[t].since)>>]
    /\ loop' = 0
    /\ UNCHANGED <<now, dispatched, limiter, stats, history>>

\* The report has been sent and the handler returns: the task is over.
StatusEnd(t) ==
    /\ loop = 0
    /\ task[t].pc = "status_replying"
    /\ task' = [task EXCEPT ![t] = Idle]
    /\ UNCHANGED <<now, loop, dispatched, limiter, stats, history>>

------------------------------------------------------------------------------
(* start and stats_command: each runs to its one await, the reply *)

\* variant: the first-seen table is started afresh for the greeted user
StartCommand_forget_others(t, user_id) ==
    /\ loop = 0
    /\ task[t].pc = "idle"
    /\ dispatched' = dispatched + 1
    /\ user_first_seen' = (user_id :> now)
    /\ task' = [task EXCEPT ![t] =
          [Idle EXCEPT !.pc = "start_replying", !.user = user_id, !.cmd = "start",
                       !.trace = <<"reply_text">>,
                       !.replies = <<[kind |-> "welcome", model |-> get_user_role(user_id),
                                      text |-> "", raw |-> <<get_user_rate_limit(user_id)>>]>>]]
    /\ UNCHANGED <<now, loop, limiter, total_requests, model_usage_counts,
                   user_usage_counts, daily_usage, hourly_usage, history>>

\* Lines 118-160: a user not seen before gets a first-seen time; the welcome
\* message names the user's role and rate limit.
StartCommand(t, user_id) ==
    /\ loop = 0
    /\ task[t].pc = "idle"
    /\ dispatched' = dispatched + 1
    /\ user_first_seen' = IF user_id \in DOMAIN user_first_seen THEN user_first_seen
                          ELSE Put(user_first_seen, user_id, now)
    /\ task' = [task EXCEPT ![t] =
          [Idle EXCEPT !.pc = "start_replying", !.user = user_id, !.cmd = "start",
                       !.trace = <<"reply_text">>,
                       !.replies = <<[kind |-> "welcome", model |-> get_user_role(user_id),
                                      text |-> "", raw |-> <<get_user_rate_limit(user_id)>>]>>]]
    /\ UNCHANGED <<now, loop, limiter, total_requests, model_usage_counts,
                   user_usage_counts, daily_usage, hourly_usage, history>>

\* The welcome message has been sent and the handler returns.
StartEnd(t) ==
    /\ loop = 0
    /\ task[t].pc = "start_replying"
    /\ task' = [task EXCEPT ![t] = Idle]
    /\ UNCHANGED <<now, loop, dispatched, limiter, stats, history>>

\* what the statistics message shows: the total, the number of users, the
\* requests of today, the count of each model and of each user
StatsReport ==
    [kind |-> "stats", model |-> "", text |-> "",
     raw |-> <<total_requests, Cardinality(DOMAIN user_usage_counts),
               Get(daily_usage, strftime_date(now), 0),
               model_usage_counts, user_usage_counts>>]

\* Lines 205-235: any user but an admin is turned away; for an admin the
\* statistics are read and sent.
StatsCommand(t, user_id) ==
    /\ loop = 0
    /\ task[t].pc = "idle"
    /\ dispatched' = dispatched + 1
    /\ task' = [task EXCEPT ![t] =
          [Idle EXCEPT !.pc = "stats_replying", !.user = user_id, !.cmd = "stats",
                       !.trace = <<"reply_text">>,
                       !.replies =
                          IF get_user_role(user_id) # "admin"
                          THEN <<[kind |-> "no_permission", model |-> "", text |-> "",
                                  raw |-> <<>>]>>
                          ELSE <<StatsReport>>]]
    /\ UNCHANGED <<now, loop, limiter, stats, history>>

\* The statistics message has been sent and the handler returns.
StatsEnd(t) ==
    /\ loop = 0
    /\ task[t].pc = "stats_replying"
    /\ task' = [task EXCEPT ![t] = Idle]
    /\ UNCHANGED <<now, loop, dispatched, limiter, stats, history>>

\* time.time() moves on
Tick(d) ==
    /\ \E s \in StartTimes : now + d <= s + MaxTime
    /\ now' = now + d
    /\ UNCHANGED <<loop, task, dispatched, limiter, stats, history>>

------------------------------------------------------------------------------
(* The bot: concurrent handler tasks, any user, any handler, any outcome *)

\* one JSON object for each way the response handling can end
SampleObjects ==
    {<<[key |-> "success", val |-> JFalse], [key |-> "error", val |-> Str(Over20)]>>,
     <<[key |-> "success", val |-> JTrue], [key |-> "error", val |-> Str(Short)]>>,
     <<[key |-> "foo", val |-> Str(Over20)]>>,
     <<[key |-> "foo", val |-> Str(Short)]>>}

SampleOutcomes ==
    {Outcome(k, <<>>) : k \in {"timeout", "http_error", "not_object"}}
        \cup {Outcome("json", o) : o \in SampleObjects}

\* a new handler task takes the first free slot
FreeSlot(t) == task[t].pc = "idle" /\ \A s \in Tasks : s < t => task[s].pc # "idle"

Next ==
    \/ \E t \in Tasks, u \in Users, cmd \in Commands, body \in Texts :
          dispatched < MaxDispatch /\ FreeSlot(t) /\ AskAiAdmit(t, u, cmd, body)
    \/ \E t \in Tasks : AskAiResume(t)
    \/ \E t \in Tasks : loop = t /\ \E o \in SampleOutcomes : UpstreamReturn(t, o)
    \/ \E t \in Tasks : AskAiReturn(t)
    \/ \E d \in LongSteps : Tick(d)

Spec == Init /\ [][Next]_vars

------------------------------------------------------------------------------
(* Bursts: concurrent handler tasks of the users that are not in user_roles,  *)
(* enough requests to pass the standard quota                                 *)

BurstUsers == {u \in Users : get_user_role(u) = "standard"}

NextBurst ==
    \/ \E t \in Tasks, u \in BurstUsers, body \in Texts :
          dispatched < MaxBurst /\ FreeSlot(t) /\ AskAiAdmit(t, u, "direct_message", body)
    \/ \E t \in Tasks : AskAiResume(t)
    \/ \E t \in Tasks : loop = t /\ \E o \in SampleOutcomes : UpstreamReturn(t, o)
    \/ \E t \in Tasks : AskAiReturn(t)
    \/ \E d \in ClockSteps : Tick(d)

SpecBurst == Init /\ [][NextBurst]_vars

------------------------------------------------------------------------------
(* Quotas: one user of any role sends requests one after the other, enough     *)
(* to pass the admin quota                                                     *)

OnlyUser(u) == DOMAIN user_request_times \subseteq {u}

NextQuota ==
    \/ \E u \in Users :
          dispatched < MaxCalls /\ OnlyUser(u) /\ AskAiAdmit(1, u, "claude", <<" ", "a">>)
    \/ AskAiResume(1)
    \/ UpstreamReturn(1, Outcome("json", <<[key |-> "response", val |-> Str(Short)]>>))
    \/ AskAiReturn(1)
    \/ \E d \in ClockSteps : Tick(d)

SpecQuota == Init /\ [][NextQuota]_vars

------------------------------------------------------------------------------
(* Responses: one task, one user, every JSON object within the bound *)

NextNorm ==
    \/ dispatched < MaxDispatch /\ AskAiAdmit(1, 3, "claude", <<" ", "a">>)
    \/ AskAiResume(1)
    \/ loop = 1 /\ \E n \in 0..MaxFields : \E ks \in KeyLists(n), vs \in ValueLists(n) :
          UpstreamReturn(1, Outcome("json", JsonObject(ks, vs)))
    \/ AskAiReturn(1)

SpecNorm == Init /\ [][NextNorm]_vars

------------------------------------------------------------------------------
(* Status probes among the questions of a user that is not in user_roles *)

NextStatus ==
    \/ \E t \in Tasks, u \in BurstUsers :
          dispatched < MaxBurst /\ FreeSlot(t) /\ AskAiAdmit(t, u, "direct_message", <<"a">>)
    \/ \E t \in Tasks : AskAiResume(t)
    \/ \E t \in Tasks :
          UpstreamReturn(t, Outcome("json", <<[key |-> "response", val |-> Str(Short)]>>))
    \/ \E t \in Tasks : AskAiReturn(t)
    \/ \E t \in Tasks, u \in BurstUsers :
          dispatched < MaxBurst /\ FreeSlot(t) /\ StatusStart(t, u)
    \/ \E t \in Tasks : StatusResume(t)
    \/ \E t \in Tasks, o \in StatusOutcomes : StatusReturn(t, o)
    \/ \E t \in Tasks : StatusEnd(t)
    \/ \E d \in LongSteps : Tick(d)

SpecStatus == Init /\ [][NextStatus]_vars

------------------------------------------------------------------------------
(* Every handler: questions, status probes, /start and /stats of an admin and *)
(* of a user that is not in user_roles, across midnight                       *)

StatsUsers == {u \in Users : get_user_role(u) # "premium"}

NextStats ==
    \/ \E t \in Tasks, u \in StatsUsers, cmd \in Commands :
          dispatched < MaxOps /\ FreeSlot(t) /\ AskAiAdmit(t, u, cmd, <<" ", "a">>)
    \/ \E t \in Tasks : AskAiResume(t)
    \/ \E t \in Tasks :
          UpstreamReturn(t, Outcome("json", <<[key |-> "response", val |-> Str(Short)]>>))
    \/ \E t \in Tasks : AskAiReturn(t)
    \/ \E t \in Tasks, u \in StatsUsers :
          dispatched < MaxOps /\ FreeSlot(t) /\ StatusStart(t, u)
    \/ \E t \in Tasks : StatusResume(t)
    \/ \E t \in Tasks : StatusReturn(t, "ok")
    \/ \E t \in Tasks : StatusEnd(t)
    \/ \E t \in Tasks, u \in StatsUsers :
          dispatched < MaxOps /\ FreeSlot(t) /\ StartCommand(t, u)
    \/ \E t \in Tasks : StartEnd(t)
    \/ \E t \in Tasks, u \in StatsUsers :
          dispatched < MaxOps /\ FreeSlot(t) /\ StatsCommand(t, u)
    \/ \E t \in Tasks : StatsEnd(t)
    \/ \E d \in LongSteps : Tick(d)

SpecStats == Init /\ [][NextStats]_vars

------------------------------------------------------------------------------
(* Properties *)

\* the quota table of the specification, section 4.1
QuotaOf(role) ==
    CASE role = "admin" -> 30 [] role = "premium" -> 15 [] OTHER -> 5

InTrace(t, call) == \E i \in 1..Len(task[t].trace) : task[t].trace[i] = call
ReplyCalls(t) == Len(SelectSeq(task[t].trace, LAMBDA c : c = "reply_text"))
Running == {t \in Tasks : task[t].pc # "idle"}

\* C1: counting a user's admit calls from a call that found no admitted request
\* in the last 60 seconds, and for as long as they fall within 60 seconds of
\* it, calls 1..quota are admitted and call quota+1 is rejected; the dispatch
\* of an admitted call gets no rate-limit reply, the dispatch of call quota+1
\* gets the rate-limit reply and nothing else.
C1_QuotaPerWindow ==
    /\ \A u \in Users :
          LET q == QuotaOf(get_user_role(u)) IN
          /\ calls[u].runCalls \in 1..q => calls[u].ok
          /\ calls[u].runCalls = q + 1 => ~calls[u].ok
    /\ \A t \in Running :
          LET q == QuotaOf(get_user_role(task[t].user)) IN
          /\ task[t].run \in 1..q =>
                /\ task[t].admitted
                /\ \A i \in 1..Len(task[t].replies) : task[t].replies[i].kind # "rate_limit"
          /\ task[t].run = q + 1 =>
                /\ ~task[t].admitted
                /\ Len(task[t].replies) = 1
                /\ task[t].replies[1].kind = "rate_limit"

\* the admin's 31st request of a window has been answered with the rate-limit reply
C1_Witness ==
    /\ task[1].pc = "replying"
    /\ get_user_role(task[1].user) = "admin"
    /\ task[1].run = 31
    /\ ~task[1].admitted

\* C2: an admit call that comes more than 60 seconds after the user's previous
\* admit call returns true, whatever the previous calls returned.
C2_WindowResets == \A u \in Users : calls[u].gapOver => calls[u].ok

\* a call admitted more than 60 seconds after a rejected one
C2_Witness == \E u \in Users : calls[u].gapOver /\ calls[u].ok /\ ~calls[u].prevOk

\* C3: with handler tasks interleaved in every way, the number of a user's
\* admitted requests that lie within 60 seconds of one another never exceeds
\* the user's quota.
C3_QuotaNeverExceeded ==
    \A u \in Users : Len(admit_log[u]) <= QuotaOf(get_user_role(u))

\* two handlers of one user are in flight at once and the user is at the quota
C3_Witness ==
    \E t1, t2 \in Tasks :
        /\ t1 # t2
        /\ task[t1].pc = "typing" /\ task[t2].pc = "typing"
        /\ task[t1].user = task[t2].user
        /\ Len(admit_log[task[t1].user]) = QuotaOf(get_user_role(task[t1].user))

\* C4: whatever the interleaving of the handler tasks, every record_usage call
\* is counted: the total, and the sums of the per-model, per-user, daily and
\* hourly counts, equal the number of record_usage calls made, and each user's
\* count equals the number of calls made for that user.
C4_NoLostUpdate ==
    LET n == SumOver(record_calls, Users) IN
    /\ total_requests = n
    /\ Sum(model_usage_counts) = n
    /\ Sum(user_usage_counts) = n
    /\ Sum(daily_usage) = n
    /\ Sum(hourly_usage) = n
    /\ \A u \in Users : Get(user_usage_counts, u, 0) = record_calls[u]

\* two handlers of different users, in flight at once, have both recorded
C4_Witness ==
    \E t1, t2 \in Tasks :
        /\ task[t1].user # task[t2].user
        /\ task[t1].pc = "replying" /\ task[t2].pc = "replying"
        /\ InTrace(t1, "record_usage") /\ InTrace(t2, "record_usage")
        /\ total_requests = 2

TimedOut(t) == task[t].pc = "replying" /\ task[t].outcome.kind = "timeout"

EmptyPrompt(t) == task[t].pc # "idle" /\ Len(task[t].args) = 0

\* C6 as stated: a dispatch without args makes no upstream call, records
\* nothing and ends with the 'please provide a question' reply alone.
C6_EmptyPromptUsageReply ==
    \A t \in Tasks : (EmptyPrompt(t) /\ task[t].pc = "replying") =>
        /\ ~InTrace(t, "requests.post")
        /\ ~InTrace(t, "record_usage")
        /\ Len(task[t].replies) = 1
        /\ task[t].replies[1].kind = "usage"

\* C6 amended: a dispatch without args makes no upstream call and records
\* nothing; it ends with one reply, the 'please provide a question' reply
\* when the rate limit check admitted it and the rate-limit reply otherwise.
C6_EmptyPromptFree ==
    \A t \in Tasks : EmptyPrompt(t) =>
        /\ ~InTrace(t, "requests.post")
        /\ ~InTrace(t, "record_usage")
        /\ task[t].pc \in {"typing", "replying"}
        /\ task[t].pc = "replying" =>
              /\ Len(task[t].replies) = 1
              /\ task[t].replies[1].kind =
                    IF task[t].admitted THEN "usage" ELSE "rate_limit"

\* dispatches without args have ended both ways
C6_Witness ==
    \E t1, t2 \in Tasks :
        /\ EmptyPrompt(t1) /\ task[t1].pc = "replying" /\ ~task[t1].admitted
        /\ EmptyPrompt(t2) /\ task[t2].pc = "replying" /\ task[t2].admitted

\* C7: the step in which a dispatch is rejected as rate-limited leaves every
\* usage counter and the first-seen times as they are, makes no upstream call
\* and sends the rate-limit reply alone; afterwards the dispatch only returns.
C7_RejectionIsFree ==
    [][\A t \in Tasks :
          /\ (task[t].pc = "idle" /\ task'[t].pc # "idle" /\ ~task'[t].admitted) =>
                /\ UNCHANGED stats
                /\ UNCHANGED record_calls
                /\ task'[t].trace = <<"is_rate_limited", "reply_text">>
                /\ Len(task'[t].replies) = 1
                /\ task'[t].replies[1].kind = "rate_limit"
          /\ (task[t].pc # "idle" /\ ~task[t].admitted) =>
                (task'[t] = task[t] \/ task'[t].pc = "idle")]_vars

\* a dispatch has been rejected as rate-limited
C7_Witness ==
    \E t \in Tasks : task[t].pc = "replying" /\ ~task[t].admitted
                     /\ task[t].user \in DOMAIN user_request_times

\* C8: a dispatch that has reached its end, whichever, has sent exactly one
\* reply, and a dispatch on its way has sent none.
C8_ExactlyOneReply ==
    \A t \in Tasks :
        /\ task[t].pc = "replying" => Len(task[t].replies) = 1 /\ ReplyCalls(t) = 1
        /\ task[t].pc \in {"typing", "upstream"} =>
              Len(task[t].replies) = 0 /\ ReplyCalls(t) = 0

\* one dispatch ended rate-limited while another ended in a timeout
C8_Witness ==
    \E t1, t2 \in Tasks :
        /\ TimedOut(t1) /\ Len(task[t1].replies) = 1
        /\ task[t2].pc = "replying" /\ ~task[t2].admitted

\* C9 as stated: while the handler of one user is inside its upstream call,
\* the handler of another user that waits at its first await can take its
\* next step.
C9_UpstreamDoesNotBlock ==
    \A a, b \in Tasks :
        (/\ task[a].pc = "upstream"
         /\ task[b].pc = "typing"
         /\ task[a].user # task[b].user) => ENABLED AskAiResume(b)

Quirk(data) ==
    \E i, j \in 1..Len(data) :
        /\ data[i].key = "success" /\ data[i].val = JFalse
        /\ data[j].key = "error" /\ data[j].val.type = "str"

ErrorText(data) ==
    (CHOOSE f \in {data[i] : i \in 1..Len(data)} : f.key = "error").val.s

\* C10: for a response object with success false and a string error field,
\* the reply is the model header followed by the value of the error field,
\* whatever other fields the object has.
C10_QuirkFirst ==
    \A t \in Tasks :
        (/\ task[t].pc = "replying"
         /\ task[t].outcome.kind = "json"
         /\ Quirk(task[t].outcome.data)) =>
            task[t].replies =
                <<[kind |-> "text", model |-> ModelName(task[t].cmd),
                   text |-> ErrorText(task[t].outcome.data), raw |-> <<>>]>>

\* the reply to an object that has success false, a string error and a
\* string response is the error
C10_Witness ==
    \E t \in Tasks :
        /\ task[t].pc = "replying"
        /\ task[t].outcome.kind = "json"
        /\ Quirk(task[t].outcome.data)
        /\ \E i \in 1..Len(task[t].outcome.data) :
              /\ task[t].outcome.data[i].key = "response"
              /\ task[t].outcome.data[i].val.type = "str"
              /\ task[t].outcome.data[i].val.s # ErrorText(task[t].outcome.data)
        /\ Len(task[t].replies) = 1
        /\ task[t].replies[1].text = ErrorText(task[t].outcome.data)

\* the terms of the normalization rules of the specification, section 4.4
JsonReplied(t) == task[t].pc = "replying" /\ task[t].outcome.kind = "json"
StrField(data, k) ==
    \E i \in 1..Len(data) : data[i].key = k /\ data[i].val.type = "str"
StrOf(data, k) ==
    (CHOOSE f \in {data[i] : i \in 1..Len(data)} : f.key = k).val.s
SuccessIs(data, b) == \E i \in 1..Len(data) : data[i].key = "success" /\ data[i].val = b
TrueError(data) == SuccessIs(data, JTrue) /\ StrField(data, "error")
TextOf(t, s) ==
    <<[kind |-> "text", model |-> ModelName(task[t].cmd), text |-> s, raw |-> <<>>]>>
UpstreamErrorOf(t, s) ==
    <<[kind |-> "error_from", model |-> ModelName(task[t].cmd), text |-> s, raw |-> <<>>]>>
UnrecognizedOf(t, data) ==
    <<[kind |-> "unexpected_format", model |-> ModelName(task[t].cmd), text |-> "",
       raw |-> data]>>

\* C11 as stated: for a response object with success true and a string error
\* field, the reply is the text of a string response field if there is one,
\* else the text of a string output field if there is one, else the error
\* message with the value of the error field.
C11_TrueErrorIsUpstreamError ==
    \A t \in Tasks :
        LET d == task[t].outcome.data IN
        (JsonReplied(t) /\ TrueError(d)) =>
            task[t].replies =
                IF StrField(d, "response") THEN TextOf(t, StrOf(d, "response"))
                ELSE IF StrField(d, "output") THEN TextOf(t, StrOf(d, "output"))
                ELSE UpstreamErrorOf(t, StrOf(d, "error"))

\* C12 as stated: when rule 1 does not match, a string response field gives
\* its text and otherwise a string output field gives its text; a response,
\* output or error field that is not a string matches no rule: the dispatch
\* does not end in the failure reply, and a non-string error with success
\* true is not reported as an upstream error.
C12_StringFieldsOnly ==
    \A t \in Tasks :
        LET d == task[t].outcome.data IN
        (JsonReplied(t) /\ ~Quirk(d)) =>
            /\ StrField(d, "response") =>
                  task[t].replies = TextOf(t, StrOf(d, "response"))
            /\ (~StrField(d, "response") /\ StrField(d, "output")) =>
                  task[t].replies = TextOf(t, StrOf(d, "output"))
            /\ \A i \in 1..Len(task[t].replies) :
                  task[t].replies[i].kind # "unexpected_error"
            /\ (~StrField(d, "response") /\ ~StrField(d, "output") /\ ~TrueError(d)) =>
                  \A i \in 1..Len(task[t].replies) :
                      task[t].replies[i].kind # "error_from"

\* the positions of the fields whose value is a string of more than 20 characters
LongFields(data) ==
    {i \in 1..Len(data) : data[i].val.type = "str" /\ Len(data[i].val.s) > 20}
FirstOf(S) == CHOOSE i \in S : \A j \in S : i <= j

\* C13 as stated: when none of rules 1 to 4 matches, the reply is the text of
\* the first field, in the order received, whose value is a string of more
\* than 20 characters, and the 'unexpected response format' message with the
\* raw payload when there is no such field.
C13_Fallback ==
    \A t \in Tasks :
        LET d == task[t].outcome.data IN
        (/\ JsonReplied(t)
         /\ ~Quirk(d)
         /\ ~StrField(d, "response")
         /\ ~StrField(d, "output")
         /\ ~TrueError(d)) =>
            task[t].replies =
                IF LongFields(d) = {} THEN UnrecognizedOf(t, d)
                ELSE TextOf(t, d[FirstOf(LongFields(d))].val.s)

StatusTask(t) == task[t].cmd = "status"

\* C14: a step of a status probe leaves every user's rate window and every
\* usage counter and first-seen time as they are, and a status probe never
\* gets the rate-limit reply; whatever the number of probes among the
\* questions, the counters count the record_usage calls of the questions
\* and the windows hold times of admitted questions only.
C14_StatusTouchesNothing ==
    [][/\ \A t \in Tasks :
             ((StatusTask(t) \/ task'[t].cmd = "status") /\ task'[t] # task[t]) =>
                 /\ UNCHANGED limiter
                 /\ UNCHANGED stats
                 /\ \A i \in 1..Len(task'[t].replies) :
                       task'[t].replies[i].kind # "rate_limit"
        /\ total_requests' = SumOver(record_calls', Users)
        /\ \A u \in DOMAIN user_request_times' :
              Len(user_request_times'[u]) <= Len(admit_log'[u])]_vars

\* a status probe has reported on the API for a user who is at the quota,
\* while a question of that user is in flight
C14_Witness ==
    \E t, a \in Tasks :
        /\ task[t].pc = "status_replying"
        /\ task[t].replies[1].kind = "status_ok"
        /\ task[a].pc = "typing"
        /\ task[a].user = task[t].user
        /\ Len(PruneWindow(Get(user_request_times, task[t].user, <<>>), now))
              = get_user_rate_limit(task[t].user)

CountIn(trace, call) == Len(SelectSeq(trace, LAMBDA c : c = call))
TransportFailed(t) ==
    task[t].pc = "replying" /\ task[t].outcome.kind \in {"connection_error", "http_error"}

C16_EmptyPromptSkipsAdmit ==
    \A t \in Tasks : EmptyPrompt(t) =>
        /\ ~InTrace(t, "is_rate_limited")
        /\ ~task[t].admitted
        /\ task[t].pc = "replying" => task[t].replies[1].kind = "usage"

\* C16 amended: a dispatch without args goes through the rate limit check
\* first. When fewer than quota times of the last 60 seconds are stored, the
\* check stores the time of the dispatch in the user's window and the dispatch
\* then ends with the 'please provide a question' reply, leaving the window
\* and the counters alone; when the user is at the quota, the window is only
\* pruned and the dispatch gets the rate-limit reply.
C16_EmptyPromptAdmitFirst ==
    [][\A t \in Tasks :
          /\ (/\ task[t].pc = "idle"
              /\ task'[t].pc \in {"typing", "replying"}
              /\ Len(task'[t].args) = 0) =>
                LET u == task'[t].user
                    kept == SelectSeq(Get(user_request_times, u, <<>>),
                                      LAMBDA s : now - s < 60)
                IN
                /\ task'[t].trace[1] = "is_rate_limited"
                /\ IF Len(kept) >= QuotaOf(get_user_role(u))
                   THEN /\ user_request_times'[u] = kept
                        /\ task'[t].pc = "replying"
                        /\ Len(task'[t].replies) = 1
                        /\ task'[t].replies[1].kind = "rate_limit"
                   ELSE /\ user_request_times'[u] = Append(kept, now)
                        /\ task'[t].pc = "typing"
                        /\ Len(task'[t].replies) = 0
          /\ (/\ task[t].pc = "typing"
              /\ Len(task[t].args) = 0
              /\ task'[t] # task[t]) =>
                /\ task'[t].pc = "replying"
                /\ Len(task'[t].replies) = 1
                /\ task'[t].replies[1].kind = "usage"
                /\ UNCHANGED limiter
                /\ UNCHANGED stats]_vars

\* a dispatch without args has taken the last place in the user's window and
\* another dispatch without args has then been rejected as rate-limited
C16_Witness ==
    \E t1, t2 \in Tasks :
        /\ EmptyPrompt(t1) /\ task[t1].pc = "typing" /\ task[t1].admitted
        /\ Len(user_request_times[task[t1].user]) = get_user_rate_limit(task[t1].user)
        /\ EmptyPrompt(t2) /\ task[t2].pc = "replying" /\ ~task[t2].admitted
        /\ task[t2].user = task[t1].user
        /\ task[t2].replies[1].kind = "rate_limit"

\* C17: a dispatch whose upstream call returned a response has called
\* record_usage exactly once, whatever reply the response led to; the step
\* of a dispatch that records adds exactly 1 to the total, to the count of
\* the dispatch's model and to the count of its user, and no other step of a
\* dispatch changes a counter.
C17_UsageOncePerDispatch ==
    [][\A t \in Tasks :
          /\ (task'[t].pc = "replying" /\ task'[t].outcome.kind = "json") =>
                CountIn(task'[t].trace, "record_usage") = 1
          /\ CountIn(task'[t].trace, "record_usage")
                = CountIn(task[t].trace, "record_usage") + 1 =>
                /\ total_requests' = total_requests + 1
                /\ Get(model_usage_counts', ModelId(task'[t].cmd), 0)
                      = Get(model_usage_counts, ModelId(task[t].cmd), 0) + 1
                /\ Get(user_usage_counts', task'[t].user, 0)
                      = Get(user_usage_counts, task[t].user, 0) + 1
          /\ (/\ task'[t] # task[t]
              /\ CountIn(task'[t].trace, "record_usage")
                    # CountIn(task[t].trace, "record_usage") + 1) =>
                UNCHANGED stats]_vars

\* two dispatches have recorded, one of them answered with the upstream's
\* error message
C17_Witness ==
    \E t \in Tasks :
        /\ task[t].pc = "replying"
        /\ task[t].outcome.kind = "json"
        /\ task[t].replies[1].kind = "error_from"
        /\ CountIn(task[t].trace, "record_usage") = 1
        /\ total_requests = 2

\* C18: a dispatch calls requests.post at most once; when the call has
\* returned or failed the dispatch goes to its reply, and after a timeout or
\* a transport failure that reply is the one error message, with no second
\* upstream call before it.
C18_NoRetry ==
    [][\A t \in Tasks :
          /\ CountIn(task'[t].trace, "requests.post") <= 1
          /\ (task[t].pc = "upstream" /\ task'[t] # task[t]) =>
                /\ task'[t].pc = "replying"
                /\ Len(task'[t].replies) = 1
                /\ task'[t].trace = Append(task[t].trace, "reply_text")
                /\ task'[t].outcome.kind = "timeout" =>
                      task'[t].replies[1].kind = "timeout"
                /\ task'[t].outcome.kind \in {"connection_error", "http_error"} =>
                      task'[t].replies[1].kind = "api_error"]_vars

\* one dispatch has timed out and another has met a transport failure
C18_Witness ==
    \E t1, t2 \in Tasks :
        /\ TimedOut(t1) /\ task[t1].replies[1].kind = "timeout"
        /\ TransportFailed(t2) /\ task[t2].replies[1].kind = "api_error"
        /\ CountIn(task[t1].trace, "requests.post") = 1
        /\ CountIn(task[t2].trace, "requests.post") = 1

\* C19: in an admit call for a user at time now, with kept the stored times
\* t of the user for which now - t < 60: when kept holds quota times or more
\* the call is rejected and the window is left as kept, without now; when it
\* holds fewer the call is admitted and the window is kept followed by now.
C19_AdmitWindowUpdate ==
    [][\A t \in Tasks :
          (task[t].pc = "idle" /\ task'[t].pc \in {"typing", "replying"}) =>
              LET u == task'[t].user
                  kept == SelectSeq(Get(user_request_times, u, <<>>),
                                    LAMBDA s : now - s < 60)
              IN
              IF Len(kept) >= QuotaOf(get_user_role(u))
              THEN /\ ~task'[t].admitted
                   /\ user_request_times'[u] = kept
              ELSE /\ task'[t].admitted
                   /\ user_request_times'[u] = Append(kept, now)]_vars

\* a call was admitted exactly 60 seconds after the user's previous admitted
\* call: the window holds the time of the new call alone
C19_Witness ==
    \E u \in DOMAIN user_request_times :
        /\ calls[u].last = now
        /\ calls[u].ok
        /\ calls[u].prevOk
        /\ \E s \in StartTimes : now = s + 60
        /\ user_request_times[u] = <<now>>

\* C20: every time stored in a user's window is within the 60 seconds that
\* end at the user's latest admit check, and a user's window never holds more
\* than quota plus one times.
C20_WindowInvariant ==
    \A u \in DOMAIN user_request_times :
        /\ \A i \in 1..Len(user_request_times[u]) :
              /\ user_request_times[u][i] <= calls[u].last
              /\ calls[u].last - user_request_times[u][i] < 60
        /\ Len(user_request_times[u]) <= QuotaOf(get_user_role(u)) + 1

\* a user's window is full, with times of two different moments, at the end
\* of a check that rejected the call
C20_Witness ==
    \E u \in DOMAIN user_request_times :
        /\ Len(user_request_times[u]) = QuotaOf(get_user_role(u))
        /\ calls[u].last - user_request_times[u][1] = 30
        /\ calls[u].last = now
        /\ ~calls[u].ok

\* d2 has every key of d1 with a count that is not smaller
Grown(d1, d2) == \A k \in DOMAIN d1 : k \in DOMAIN d2 /\ d2[k] >= d1[k]

\* C21: in every step of every handler (question, status probe, /start,
\* /stats) and of the clock, the total does not decrease, every per-model,
\* per-user, daily and hourly count stays or grows, and every key of those
\* mappings and of the first-seen table is still there afterwards.
C21_StatsMonotone ==
    [][/\ total_requests' >= total_requests
       /\ Grown(model_usage_counts, model_usage_counts')
       /\ Grown(user_usage_counts, user_usage_counts')
       /\ Grown(daily_usage, daily_usage')
       /\ Grown(hourly_usage, hourly_usage')
       /\ DOMAIN user_first_seen \subseteq DOMAIN user_first_seen']_vars

\* the statistics have been sent to an admin when questions have been
\* recorded on two days and a user greeted by /start has a first-seen time
C21_Witness ==
    \E t \in Tasks :
        /\ task[t].pc = "stats_replying"
        /\ task[t].replies[1].kind = "stats"
        /\ Cardinality(DOMAIN daily_usage) = 2
        /\ total_requests = 2

\* C22: the total equals the sum of the per-model counts, of the per-user
\* counts, of the daily counts and of the hourly counts; every user with a
\* positive count has a first-seen time; and a user's count is never more
\* than the number of admit calls that admitted that user.
C22_CountersConsistent ==
    /\ total_requests = Sum(model_usage_counts)
    /\ total_requests = Sum(user_usage_counts)
    /\ total_requests = Sum(daily_usage)
    /\ total_requests = Sum(hourly_usage)
    /\ \A u \in DOMAIN user_usage_counts :
          user_usage_counts[u] > 0 => u \in DOMAIN user_first_seen
    /\ \A u \in Users : Get(user_usage_counts, u, 0) <= admitted_calls[u]

\* questions were recorded on two days, a dispatch without args was admitted
\* and never recorded, and a dispatch has been rejected as rate-limited
C22_Witness ==
    \E u \in DOMAIN user_usage_counts :
        /\ Cardinality(DOMAIN daily_usage) = 2
        /\ user_usage_counts[u] >= 2
        /\ user_usage_counts[u] < admitted_calls[u]
        /\ \E t \in Tasks : /\ task[t].pc = "replying" /\ ~task[t].admitted
                            /\ task[t].user = u

====
